---- MODULE Spec2Model ----
(***************************************************************************)
(* Model of backend/vector_store/faiss_store.py (FAISSVectorStore) and of  *)
(* the embedding generator it uses (backend/vector_store/embeddings.py).   *)
(*                                                                         *)
(* Similarities are integers in hundredths (100 stands for 1.0).  A vector *)
(* is a direction in the plane, in steps of 45 degrees, with a length and  *)
(* the dimension of the embedding space it belongs to; the inner product   *)
(* of two vectors is the product of their lengths and of the cosine of the *)
(* angle between them.                                                     *)
(***************************************************************************)
EXTENDS Integers, Sequences, FiniteSets, TLC

VARIABLES
    use_openai,     \* EmbeddingGenerator.use_openai of the store's generator
    index_path,     \* FAISSVectorStore.index_path (<<>> when not configured)
    index,          \* FAISSVectorStore.index
    documents,      \* FAISSVectorStore.documents
    metadata,       \* FAISSVectorStore.metadata
    dimension,      \* FAISSVectorStore.dimension
    fs,             \* the files on disk, by path
    last,           \* the latest call on the store: its arguments and outcome
    results,        \* what the latest search returned
    writer,         \* a thread inside build_index / add_documents: its position and locals
    reader,         \* a thread inside search: its position and locals
    app,            \* main.py: vector_store_instance, citation_extractor, the chat request
    sessions,       \* the sessions dictionary: session id -> list of messages
    requests,       \* the /chat requests in flight: their position and locals
    caller,         \* the list objects a caller passed to the store, and what it meant by them
    chunker         \* a call of chunk_text: its arguments and locals

vars == <<use_openai, index_path, index, documents, metadata, dimension, fs, last, results,
          writer, reader, app, sessions, requests, caller, chunker>>

-----------------------------------------------------------------------------
(* Bounds *)

MaxTotal == 2       \* documents held by a store
MaxBatch == 2       \* texts of one build_index / add_documents call

-----------------------------------------------------------------------------
(* Values *)

Texts == {"a", "b"}
Queries == {"qa", "qm"}

\* A metadata mapping is the set of its <<key, value>> pairs.
EmptyDict == {}
Dicts == {EmptyDict, {<<"url", "x">>}}

Thresholds == {-100, 0, 50}

\* Paths are sequences of parts; <<>> is the absent (or empty) path.
NoPath == <<>>
IndexPaths == {<<"store", ".index">>}

\* index paths as configuration may give them: with and without ".index" in them
DiskPaths == IndexPaths \cup {<<"store", ".faiss">>}

AllPaths == DiskPaths \cup {<<"store", ".data">>}

RECURSIVE SeqsUpTo(_, _)
SeqsUpTo(S, n) ==
    IF n = 0 THEN {<<>>}
    ELSE LET shorter == SeqsUpTo(S, n - 1)
         IN  shorter \cup {Append(s, x) : s \in {t \in shorter : Len(t) = n - 1}, x \in S}

TextSeqs == SeqsUpTo(Texts, MaxBatch)

\* The metadata argument: absent (None) or a list of mappings.
NoMeta == [given |-> FALSE, list |-> <<>>]
MetaArgs == {NoMeta} \cup {[given |-> TRUE, list |-> l] : l \in SeqsUpTo(Dicts, MaxBatch)}

Min(a, b) == IF a <= b THEN a ELSE b

\* n copies of x: [x] * n
Repeat(x, n) == [i \in 1..n |-> x]

\* s[:n]
Take(s, n) == SubSeq(s, 1, Min(n, Len(s)))

-----------------------------------------------------------------------------
(* Embeddings *)

\* cos of k * 45 degrees, in hundredths
Cos(k) == <<100, 71, 0, -71, -100, -71, 0, 71>>[(k % 8) + 1]

\* The direction and the length the embedding model gives a text.
Angle(text) ==
    CASE text = "a" -> 0
      [] text = "b" -> 4
      [] text = "qa" -> 0
      [] text = "qm" -> 2
      [] OTHER -> 0

RawNorm(text) == IF text \in {"b", "qm"} THEN 2 ELSE 1

\* EmbeddingGenerator.dimension
GeneratorDimension(openai) == IF openai THEN 1536 ELSE 384

\* EmbeddingGenerator.embed
embed(openai, text) ==
    [d |-> GeneratorDimension(openai), angle |-> Angle(text), norm |-> RawNorm(text)]

\* EmbeddingGenerator.embed_batch: the matrix of the embeddings, with its width
embed_batch(openai, texts) ==
    [d |-> GeneratorDimension(openai),
     rows |-> [i \in 1..Len(texts) |-> embed(openai, texts[i])]]

\* faiss.normalize_L2 on one vector, and on the rows of a matrix
normalize_L2(v) == [v EXCEPT !.norm = 1]

normalize_rows(m) == [m EXCEPT !.rows = [i \in 1..Len(m.rows) |-> normalize_L2(m.rows[i])]]

InnerProduct(u, v) == u.norm * v.norm * Cos(u.angle - v.angle)

-----------------------------------------------------------------------------
(* The FAISS index: faiss.IndexFlatIP *)

\* self.index = None
NoIndex == [present |-> FALSE, d |-> 0, vecs |-> <<>>]

\* faiss.IndexFlatIP(d)
IndexFlatIP(d) == [present |-> TRUE, d |-> d, vecs |-> <<>>]

\* index.ntotal
ntotal(ix) == Len(ix.vecs)

\* index.add(m) accepts only a matrix of the index's width
CanAdd(ix, m) == m.d = ix.d

index_add(ix, m) == [ix EXCEPT !.vecs = @ \o m.rows]

\* The position (0-based, as FAISS reports it) of the best vector among the
\* positions in `among`: the largest inner product, the lowest position on a tie.
Best(ix, qv, among) ==
    CHOOSE i \in among :
        \A j \in among :
            \/ InnerProduct(qv, ix.vecs[i + 1]) > InnerProduct(qv, ix.vecs[j + 1])
            \/ /\ InnerProduct(qv, ix.vecs[i + 1]) = InnerProduct(qv, ix.vecs[j + 1])
               /\ i <= j

RECURSIVE RankFrom(_, _, _, _)
RankFrom(ix, qv, among, k) ==
    IF k = 0 \/ among = {} THEN <<>>
    ELSE LET b == Best(ix, qv, among)
         IN  <<[similarity |-> InnerProduct(qv, ix.vecs[b + 1]), idx |-> b]>>
                 \o RankFrom(ix, qv, among \ {b}, k - 1)

\* index.search(q, k): the k nearest neighbours, nearest first
index_search(ix, qv, k) == RankFrom(ix, qv, 0..(ntotal(ix) - 1), k)

-----------------------------------------------------------------------------
(* Files *)

NoFile == [kind |-> "absent", index |-> NoIndex, documents |-> <<>>,
           metadata |-> <<>>, dimension |-> 0]

\* what faiss.write_index leaves at a path
IndexFile(ix) == [NoFile EXCEPT !.kind = "index", !.index = ix]

\* what pickle.dump of the side data leaves at a path
DataFile(docs, meta, dim) ==
    [NoFile EXCEPT !.kind = "data", !.documents = docs, !.metadata = meta, !.dimension = dim]

\* os.path.exists
Exists(files, path) == path \in DOMAIN files /\ files[path].kind # "absent"

\* path.replace('.index', '.data')
DataPath(path) == [i \in 1..Len(path) |-> IF path[i] = ".index" THEN ".data" ELSE path[i]]

-----------------------------------------------------------------------------
(* FAISSVectorStore: the methods, on the state of one store instance.      *)
(* A state S has the fields index, documents, metadata, dimension, the     *)
(* files fs, raised: whether the call ended by raising an exception, and   *)
(* warned: whether the call printed the dimension warning.                 *)

Raise(S) == [S EXCEPT !.raised = TRUE]

\* save(path): the index file, then the side data file.  dataOk = FALSE is a
\* save that fails after faiss.write_index and before the side file is opened.
save(S, path, dataOk) ==
    IF ~S.index.present THEN Raise(S)
    ELSE LET written == [S.fs EXCEPT ![path] = IndexFile(S.index)]
             data_path == DataPath(path)
         IN  IF dataOk
             THEN [S EXCEPT !.fs = [written EXCEPT ![data_path] =
                                        DataFile(S.documents, S.metadata, S.dimension)]]
             ELSE Raise([S EXCEPT !.fs = written])

\* BuildMetadata that stores the supplied list as it is (no padding, no cut)
BuildMetadata_AsGiven(docs, meta) ==
    IF ~meta.given THEN Repeat(EmptyDict, Len(docs)) ELSE meta.list

\* build_index, lines 60-67: the metadata list stored for `docs`
BuildMetadata(docs, meta) ==
    IF ~meta.given THEN Repeat(EmptyDict, Len(docs))
    ELSE IF Len(meta.list) < Len(docs)
         THEN meta.list \o Repeat(EmptyDict, Len(docs) - Len(meta.list))
         ELSE Take(meta.list, Len(docs))

\* build_index that adds to the index and the lists the store holds
build_index_KeepPrior(S, openai, path, docs, meta, embedOk, dataOk) ==
    LET embeddings == normalize_rows(embed_batch(openai, docs))
        base == IF S.index.present THEN S.index ELSE IndexFlatIP(S.dimension)
    IN  IF ~embedOk THEN Raise(S)
        ELSE IF ~CanAdd(base, embeddings) THEN Raise([S EXCEPT !.index = base])
        ELSE LET built == [S EXCEPT !.index = index_add(base, embeddings),
                                    !.documents = docs,
                                    !.metadata = BuildMetadata(docs, meta)]
             IN  IF path # NoPath THEN save(built, path, dataOk) ELSE built

\* build_index(documents, metadata)
build_index(S, openai, path, docs, meta, embedOk, dataOk) ==
    LET embeddings == normalize_rows(embed_batch(openai, docs))
        fresh == IndexFlatIP(S.dimension)
    IN  IF ~embedOk THEN Raise(S)
        ELSE IF ~CanAdd(fresh, embeddings) THEN Raise([S EXCEPT !.index = fresh])
        ELSE LET built == [S EXCEPT !.index = index_add(fresh, embeddings),
                                    !.documents = docs,
                                    !.metadata = BuildMetadata(docs, meta)]
             IN  IF path # NoPath THEN save(built, path, dataOk) ELSE built

\* add_documents, lines 208-211: the metadata list after the new batch
AddMetadata(old, docs, meta) ==
    IF meta.given /\ meta.list # <<>>
    THEN old \o meta.list
    ELSE old \o Repeat(EmptyDict, Len(docs))

\* add_documents that puts the new batch in front of what the store holds
add_documents_InFront(S, openai, path, docs, meta, embedOk, dataOk) ==
    IF ~S.index.present THEN build_index(S, openai, path, docs, meta, embedOk, dataOk)
    ELSE LET embeddings == normalize_rows(embed_batch(openai, docs))
         IN  IF ~embedOk THEN Raise(S)
             ELSE IF ~CanAdd(S.index, embeddings) THEN Raise(S)
             ELSE LET grown == [S EXCEPT !.index = [S.index EXCEPT !.vecs = embeddings.rows \o @],
                                         !.documents = docs \o S.documents,
                                         !.metadata = AddMetadata(S.metadata, docs, meta)]
                  IN  IF path # NoPath THEN save(grown, path, dataOk) ELSE grown

\* add_documents that does not hand a store without an index to build_index:
\* it makes an index of its own and appends
add_documents_NoDelegate(S, openai, path, docs, meta, embedOk, dataOk) ==
    LET embeddings == normalize_rows(embed_batch(openai, docs))
        base == IF S.index.present THEN S.index ELSE IndexFlatIP(S.dimension)
    IN  IF ~embedOk THEN Raise(S)
        ELSE IF ~CanAdd(base, embeddings) THEN Raise(S)
        ELSE LET grown == [S EXCEPT !.index = index_add(base, embeddings),
                                    !.documents = S.documents \o docs,
                                    !.metadata = AddMetadata(S.metadata, docs, meta)]
             IN  IF path # NoPath THEN save(grown, path, dataOk) ELSE grown

\* add_documents(documents, metadata)
add_documents(S, openai, path, docs, meta, embedOk, dataOk) ==
    IF ~S.index.present THEN build_index(S, openai, path, docs, meta, embedOk, dataOk)
    ELSE LET embeddings == normalize_rows(embed_batch(openai, docs))
         IN  IF ~embedOk THEN Raise(S)
             ELSE IF ~CanAdd(S.index, embeddings) THEN Raise(S)
             ELSE LET grown == [S EXCEPT !.index = index_add(S.index, embeddings),
                                         !.documents = S.documents \o docs,
                                         !.metadata = AddMetadata(S.metadata, docs, meta)]
                  IN  IF path # NoPath THEN save(grown, path, dataOk) ELSE grown

\* load, lines 180-183: the loaded metadata made as long as the loaded documents
LoadMetadata(docs, meta) ==
    IF Len(meta) < Len(docs) THEN meta \o Repeat(EmptyDict, Len(docs) - Len(meta))
    ELSE IF Len(meta) > Len(docs) THEN Take(meta, Len(docs))
    ELSE meta

\* load that keeps the lists of the store when the side file is missing
load_KeepLists(S, openai, path) ==
    IF ~Exists(S.fs, path) THEN S
    ELSE IF S.fs[path].kind # "index" THEN Raise(S)
    ELSE LET ix == S.fs[path].index
             index_dimension == ix.d
             data_path == DataPath(path)
             withIndex == [S EXCEPT !.index = ix]
         IN  IF Exists(S.fs, data_path)
             THEN IF S.fs[data_path].kind # "data" THEN Raise(withIndex)
                  ELSE LET data == S.fs[data_path]
                           stored_dimension == data.dimension
                           new_dimension == IF stored_dimension # 0 THEN stored_dimension
                                            ELSE S.dimension
                       IN  [withIndex EXCEPT
                               !.documents = data.documents,
                               !.metadata = LoadMetadata(data.documents, data.metadata),
                               !.dimension = new_dimension,
                               !.warned = GeneratorDimension(openai) # new_dimension]
             ELSE [withIndex EXCEPT
                      !.dimension = IF index_dimension # 0 THEN index_dimension
                                    ELSE S.dimension]

\* load(path)
load(S, openai, path) ==
    IF ~Exists(S.fs, path) THEN S
    ELSE IF S.fs[path].kind # "index" THEN Raise(S)
    ELSE LET ix == S.fs[path].index
             index_dimension == ix.d
             data_path == DataPath(path)
             withIndex == [S EXCEPT !.index = ix]
         IN  IF Exists(S.fs, data_path)
             THEN IF S.fs[data_path].kind # "data" THEN Raise(withIndex)
                  ELSE LET data == S.fs[data_path]
                           stored_dimension == data.dimension
                           new_dimension == IF stored_dimension # 0 THEN stored_dimension
                                            ELSE S.dimension
                       IN  [withIndex EXCEPT
                               !.documents = data.documents,
                               !.metadata = LoadMetadata(data.documents, data.metadata),
                               !.dimension = new_dimension,
                               !.warned = GeneratorDimension(openai) # new_dimension]
             ELSE [withIndex EXCEPT
                      !.documents = <<>>,
                      !.metadata = <<>>,
                      !.dimension = IF index_dimension # 0 THEN index_dimension
                                    ELSE S.dimension]

\* __init__(embedding_generator, index_path), on the files `files`
construct(files, openai, path) ==
    LET fresh == [index |-> NoIndex, documents |-> <<>>, metadata |-> <<>>,
                  dimension |-> GeneratorDimension(openai), fs |-> files, raised |-> FALSE,
                  warned |-> FALSE]
    IN  IF path # NoPath /\ Exists(files, path) THEN load(fresh, openai, path) ELSE fresh

\* FilterResults with > in place of >=
RECURSIVE FilterResults_Strict(_, _, _, _)
FilterResults_Strict(ranked, docs, meta, threshold) ==
    IF ranked = <<>> THEN <<>>
    ELSE LET similarity == Head(ranked).similarity
             idx == Head(ranked).idx
             rest == FilterResults_Strict(Tail(ranked), docs, meta, threshold)
         IN  IF idx >= 0 /\ similarity > threshold
             THEN IF idx >= Len(docs) THEN rest
                  ELSE <<[text |-> docs[idx + 1],
                          similarity |-> similarity,
                          metadata |-> IF idx < Len(meta) THEN meta[idx + 1] ELSE EmptyDict]>>
                       \o rest
             ELSE rest

\* FilterResults that compares the magnitude of the similarity with the threshold
RECURSIVE FilterResults_Magnitude(_, _, _, _)
FilterResults_Magnitude(ranked, docs, meta, threshold) ==
    IF ranked = <<>> THEN <<>>
    ELSE LET similarity == Head(ranked).similarity
             idx == Head(ranked).idx
             rest == FilterResults_Magnitude(Tail(ranked), docs, meta, threshold)
         IN  IF idx >= 0 /\ (IF similarity < 0 THEN -similarity ELSE similarity) >= threshold
             THEN IF idx >= Len(docs) THEN rest
                  ELSE <<[text |-> docs[idx + 1],
                          similarity |-> similarity,
                          metadata |-> IF idx < Len(meta) THEN meta[idx + 1] ELSE EmptyDict]>>
                       \o rest
             ELSE rest

\* FilterResults that inserts each result at the front of the list
RECURSIVE FilterResults_InsertFront(_, _, _, _)
FilterResults_InsertFront(ranked, docs, meta, threshold) ==
    IF ranked = <<>> THEN <<>>
    ELSE LET similarity == Head(ranked).similarity
             idx == Head(ranked).idx
             rest == FilterResults_InsertFront(Tail(ranked), docs, meta, threshold)
         IN  IF idx >= 0 /\ similarity >= threshold
             THEN IF idx >= Len(docs) THEN rest
                  ELSE rest \o
                       <<[text |-> docs[idx + 1],
                          similarity |-> similarity,
                          metadata |-> IF idx < Len(meta) THEN meta[idx + 1] ELSE EmptyDict]>>
             ELSE rest

\* FilterResults that drops a neighbour whose position has no metadata entry
RECURSIVE FilterResults_DropWithoutMetadata(_, _, _, _)
FilterResults_DropWithoutMetadata(ranked, docs, meta, threshold) ==
    IF ranked = <<>> THEN <<>>
    ELSE LET similarity == Head(ranked).similarity
             idx == Head(ranked).idx
             rest == FilterResults_DropWithoutMetadata(Tail(ranked), docs, meta, threshold)
         IN  IF idx >= 0 /\ similarity >= threshold
             THEN IF idx >= Len(docs) \/ idx >= Len(meta) THEN rest
                  ELSE <<[text |-> docs[idx + 1],
                          similarity |-> similarity,
                          metadata |-> meta[idx + 1]]>>
                       \o rest
             ELSE rest

\* search, lines 102-126: the ranked neighbours that pass the threshold,
\* resolved against the documents and metadata lists
RECURSIVE FilterResults(_, _, _, _)
FilterResults(ranked, docs, meta, threshold) ==
    IF ranked = <<>> THEN <<>>
    ELSE LET similarity == Head(ranked).similarity
             idx == Head(ranked).idx
             rest == FilterResults(Tail(ranked), docs, meta, threshold)
         IN  IF idx >= 0 /\ similarity >= threshold
             THEN IF idx >= Len(docs) THEN rest
                  ELSE <<[text |-> docs[idx + 1],
                          similarity |-> similarity,
                          metadata |-> IF idx < Len(meta) THEN meta[idx + 1] ELSE EmptyDict]>>
                       \o rest
             ELSE rest

\* the neighbours search asks the index for: line 99
Neighbours(ix, qv, top_k) == index_search(ix, qv, Min(top_k, ntotal(ix)))

\* search without the early return of lines 87-88
search_NoEarlyReturn(S, openai, query, top_k, threshold) ==
    LET query_embedding == normalize_L2(embed(openai, query))
    IN  IF ~S.index.present \/ query_embedding.d # S.index.d
           \/ Min(top_k, ntotal(S.index)) <= 0
        THEN [raised |-> TRUE, results |-> <<>>]
        ELSE [raised |-> FALSE,
              results |-> FilterResults(Neighbours(S.index, query_embedding, top_k),
                                        S.documents, S.metadata, threshold)]

\* search(query, top_k, threshold): what it returns, or that it raised
search(S, openai, query, top_k, threshold) ==
    IF ~S.index.present \/ ntotal(S.index) = 0 THEN [raised |-> FALSE, results |-> <<>>]
    ELSE LET query_embedding == normalize_L2(embed(openai, query))
         IN  IF query_embedding.d # S.index.d \/ Min(top_k, ntotal(S.index)) <= 0
             THEN [raised |-> TRUE, results |-> <<>>]
             ELSE [raised |-> FALSE,
                   results |-> FilterResults(Neighbours(S.index, query_embedding, top_k),
                                             S.documents, S.metadata, threshold)]

-----------------------------------------------------------------------------------------------------------------------------------------------------
(* The state machine: one store instance, its caller and the disk.  Calls  *)
(* do not overlap here: the caller makes a call, holds its outcome (last,  *)
(* results), and goes on to the next call.                                 *)

Self == [index |-> index, documents |-> documents, metadata |-> metadata,
         dimension |-> dimension, fs |-> fs, raised |-> FALSE, warned |-> FALSE]

Become(S) ==
    /\ index' = S.index
    /\ documents' = S.documents
    /\ metadata' = S.metadata
    /\ dimension' = S.dimension
    /\ fs' = S.fs

\* no call made, or its outcome no longer held
NoCall == [op |-> "none", texts |-> <<>>, meta |-> NoMeta, path |-> NoPath,
           query |-> "", top_k |-> 0, threshold |-> 0, raised |-> FALSE,
           had_index |-> FALSE, had_documents |-> FALSE, warned |-> FALSE]

Idle == last.op = "none"

\* an empty batch may be refused by the embedding backend
EmbedOutcomes(docs) == IF docs = <<>> THEN BOOLEAN ELSE {TRUE}

\* top_k of a search: 0, and up to more than a store holds
TopKs == 0..(MaxTotal + 1)

\* The disk an earlier run of the program left behind: nothing, the files of a
\* build_index whose save completed, or those of one whose save stopped after
\* the index file was written.
NoFiles == [p \in AllPaths |-> NoFile]

EarlierRun(path, docs, meta, dataOk) ==
    build_index(construct(NoFiles, FALSE, path), FALSE, path, docs, meta, TRUE, dataOk).fs

InitialDisks ==
    {NoFiles} \cup
    {EarlierRun(path, <<"b", "a">>, [given |-> TRUE, list |-> <<{<<"url", "x">>}>>], dataOk) :
        path \in IndexPaths, dataOk \in BOOLEAN}

\* no thread is inside a method of the store
NoWriter == [pc |-> "idle", op |-> "", docs |-> <<>>, meta |-> NoMeta,
             before |-> construct(NoFiles, FALSE, NoPath)]

NoReader == [pc |-> "idle", query |-> "", top_k |-> 0, threshold |-> 0,
             ranked |-> <<>>, pos |-> 0, out |-> <<>>, raised |-> FALSE]

\* the state of the parts of the program that a specification leaves alone
NoSessions == <<>>
NoRequests == <<>>
NoCaller == <<>>
NoChunker == <<>>

\* main.py before startup: vector_store_instance and citation_extractor are
\* None, no chat request is in progress
NoApp == [phase |-> "down", ready |-> FALSE, extractor |-> "unset", raised |-> FALSE,
          log |-> "", step |-> "", invoked |-> FALSE, found |-> "", index_exists |-> FALSE,
          loaded |-> FALSE,
          top_k |-> 0, threshold |-> 0,
          pc |-> "idle", query |-> "", context |-> <<>>, citations |-> <<>>,
          search_raised |-> FALSE, chat_raised |-> FALSE]

\* a store constructed on the disk an earlier run left
Init ==
    /\ use_openai = FALSE
    /\ index_path \in {NoPath} \cup IndexPaths
    /\ \E files \in InitialDisks :
          LET S == construct(files, use_openai, index_path)
          IN  /\ ~S.raised
              /\ index = S.index
              /\ documents = S.documents
              /\ metadata = S.metadata
              /\ dimension = S.dimension
              /\ fs = S.fs
    /\ last = NoCall
    /\ results = <<>>
    /\ writer = NoWriter
    /\ reader = NoReader
    /\ sessions = NoSessions
    /\ requests = NoRequests
    /\ caller = NoCaller
    /\ chunker = NoChunker
    /\ app = NoApp

\* a new store instance with the same configuration (the process restarts)
Construct ==
    LET S == construct(fs, use_openai, index_path)
    IN  /\ Idle
        /\ ~S.raised
        /\ Become(S)
        /\ last' = [NoCall EXCEPT !.op = "construct", !.path = index_path,
                                  !.warned = S.warned]
        /\ results' = <<>>
        /\ UNCHANGED <<use_openai, index_path, writer, reader, app, sessions, requests, caller, chunker>>

BuildIndex ==
    \E docs \in TextSeqs, meta \in MetaArgs :
      \E embedOk \in EmbedOutcomes(docs) :
        LET S == build_index(Self, use_openai, index_path, docs, meta, embedOk, TRUE)
        IN  /\ Idle
            /\ Become(S)
            /\ last' = [NoCall EXCEPT !.op = "build_index", !.texts = docs, !.meta = meta,
                                      !.raised = S.raised, !.had_index = index.present]
            /\ results' = <<>>
            /\ UNCHANGED <<use_openai, index_path, writer, reader, app, sessions, requests, caller, chunker>>

AddDocuments ==
    \E docs \in TextSeqs, meta \in MetaArgs :
      \E embedOk \in EmbedOutcomes(docs) :
        LET S == add_documents(Self, use_openai, index_path, docs, meta, embedOk, TRUE)
        IN  /\ Idle
            /\ ntotal(index) + Len(docs) <= MaxTotal
            /\ Len(documents) + Len(docs) <= MaxTotal
            /\ Len(metadata) + Len(meta.list) <= MaxTotal + 1
            /\ Become(S)
            /\ last' = [NoCall EXCEPT !.op = "add_documents", !.texts = docs, !.meta = meta,
                                      !.raised = S.raised, !.had_index = index.present]
            /\ results' = <<>>
            /\ UNCHANGED <<use_openai, index_path, writer, reader, app, sessions, requests, caller, chunker>>

Load ==
    \E path \in IndexPaths :
        LET S == load(Self, use_openai, path)
        IN  /\ Idle
            /\ Become(S)
            /\ last' = [NoCall EXCEPT !.op = "load", !.path = path, !.raised = S.raised,
                                      !.warned = S.warned,
                                      !.had_documents = documents # <<>>]
            /\ results' = <<>>
            /\ UNCHANGED <<use_openai, index_path, writer, reader, app, sessions, requests, caller, chunker>>

Search ==
    \E query \in Queries, top_k \in TopKs, threshold \in Thresholds :
        LET r == search(Self, use_openai, query, top_k, threshold)
        IN  /\ Idle
            /\ results' = r.results
            /\ last' = [NoCall EXCEPT !.op = "search", !.query = query, !.top_k = top_k,
                                      !.threshold = threshold, !.raised = r.raised]
            /\ UNCHANGED <<use_openai, index_path, index, documents, metadata, dimension, fs,
                           writer, reader, app, sessions, requests, caller, chunker>>

\* the caller goes on
Return ==
    /\ ~Idle
    /\ last' = NoCall
    /\ results' = <<>>
    /\ UNCHANGED <<use_openai, index_path, index, documents, metadata, dimension, fs,
                   writer, reader, app, sessions, requests, caller, chunker>>

Next ==
    \/ Construct
    \/ BuildIndex
    \/ AddDocuments
    \/ Load
    \/ Search
    \/ Return

Spec == Init /\ [][Next]_vars

-----------------------------------------------------------------------------
(* Two threads on one store: one inside build_index or add_documents, one  *)
(* inside search.  The store takes no lock, so the threads interleave      *)
(* between the statements of the methods.                                  *)

\* the stores the threads start on: built by build_index, without a path
BuiltStores ==
    {build_index(construct(NoFiles, FALSE, NoPath), FALSE, NoPath, docs, NoMeta, TRUE, TRUE) :
        docs \in TextSeqs \ {<<>>}}

InitConc ==
    /\ use_openai = FALSE
    /\ index_path = NoPath
    /\ \E S \in BuiltStores :
          /\ index = S.index
          /\ documents = S.documents
          /\ metadata = S.metadata
          /\ dimension = S.dimension
          /\ fs = S.fs
    /\ last = NoCall
    /\ results = <<>>
    /\ writer = NoWriter
    /\ reader = NoReader
    /\ sessions = NoSessions
    /\ requests = NoRequests
    /\ caller = NoCaller
    /\ chunker = NoChunker
    /\ app = NoApp

\* the writer's batch, embedded and normalized: lines 46-49 and 200-201
WriterEmbeddings == normalize_rows(embed_batch(use_openai, writer.docs))

\* a thread calls build_index(docs, meta) or add_documents(docs, meta)
WriterCall ==
    \E op \in {"build_index", "add_documents"}, docs \in TextSeqs \ {<<>>}, meta \in MetaArgs :
        /\ writer.pc = "idle"
        /\ op = "add_documents" =>
              /\ Len(documents) + Len(docs) <= MaxTotal
              /\ Len(metadata) + Len(meta.list) <= MaxTotal + 1
        /\ writer' = [pc |-> IF op = "add_documents" /\ index.present THEN "add_204"
                              ELSE "build_52",
                      op |-> op, docs |-> docs, meta |-> meta, before |-> Self]
        /\ UNCHANGED <<use_openai, index_path, index, documents, metadata, dimension, fs,
                       last, results, reader, app, sessions, requests, caller, chunker>>

\* build_index line 52: self.index = faiss.IndexFlatIP(self.dimension)
Build52 ==
    /\ writer.pc = "build_52"
    /\ index' = IndexFlatIP(dimension)
    /\ writer' = [writer EXCEPT !.pc = "build_55"]
    /\ UNCHANGED <<use_openai, index_path, documents, metadata, dimension, fs, last, results,
                   reader, app, sessions, requests, caller, chunker>>

\* build_index line 55: self.index.add(embeddings)
Build55 ==
    /\ writer.pc = "build_55"
    /\ index' = index_add(index, WriterEmbeddings)
    /\ writer' = [writer EXCEPT !.pc = "build_58"]
    /\ UNCHANGED <<use_openai, index_path, documents, metadata, dimension, fs, last, results,
                   reader, app, sessions, requests, caller, chunker>>

\* build_index line 58: self.documents = documents
Build58 ==
    /\ writer.pc = "build_58"
    /\ documents' = writer.docs
    /\ writer' = [writer EXCEPT !.pc = "build_60"]
    /\ UNCHANGED <<use_openai, index_path, index, metadata, dimension, fs, last, results,
                   reader, app, sessions, requests, caller, chunker>>

\* build_index lines 60-67: self.metadata = ...; the method returns
Build60 ==
    /\ writer.pc = "build_60"
    /\ metadata' = BuildMetadata(writer.docs, writer.meta)
    /\ writer' = [writer EXCEPT !.pc = "done"]
    /\ UNCHANGED <<use_openai, index_path, index, documents, dimension, fs, last, results,
                   reader, app, sessions, requests, caller, chunker>>

\* add_documents line 204: self.index.add(embeddings)
Add204 ==
    /\ writer.pc = "add_204"
    /\ index' = index_add(index, WriterEmbeddings)
    /\ writer' = [writer EXCEPT !.pc = "add_207"]
    /\ UNCHANGED <<use_openai, index_path, documents, metadata, dimension, fs, last, results,
                   reader, app, sessions, requests, caller, chunker>>

\* add_documents line 207: self.documents.extend(documents)
Add207 ==
    /\ writer.pc = "add_207"
    /\ documents' = documents \o writer.docs
    /\ writer' = [writer EXCEPT !.pc = "add_208"]
    /\ UNCHANGED <<use_openai, index_path, index, metadata, dimension, fs, last, results,
                   reader, app, sessions, requests, caller, chunker>>

\* add_documents lines 208-211: self.metadata.extend(...); the method returns
Add208 ==
    /\ writer.pc = "add_208"
    /\ metadata' = AddMetadata(metadata, writer.docs, writer.meta)
    /\ writer' = [writer EXCEPT !.pc = "done"]
    /\ UNCHANGED <<use_openai, index_path, index, documents, dimension, fs, last, results,
                   reader, app, sessions, requests, caller, chunker>>

\* a thread calls search(query, top_k, threshold)
ReaderCall ==
    \E query \in Queries, top_k \in TopKs \ {0}, threshold \in Thresholds :
        /\ reader.pc = "idle"
        /\ reader' = [NoReader EXCEPT !.pc = "search_87", !.query = query, !.top_k = top_k,
                                      !.threshold = threshold]
        /\ UNCHANGED <<use_openai, index_path, index, documents, metadata, dimension, fs,
                       last, results, writer, app, sessions, requests, caller, chunker>>

\* search lines 87-88: the early return
Search87 ==
    /\ reader.pc = "search_87"
    /\ reader' = [reader EXCEPT
                     !.pc = IF ~index.present \/ ntotal(index) = 0 THEN "done" ELSE "search_99"]
    /\ UNCHANGED <<use_openai, index_path, index, documents, metadata, dimension, fs,
                   last, results, writer, app, sessions, requests, caller, chunker>>

\* search lines 91-99: the query is embedded and the index searched
Search99 ==
    /\ reader.pc = "search_99"
    /\ LET query_embedding == normalize_L2(embed(use_openai, reader.query))
       IN  reader' =
              IF query_embedding.d # index.d \/ Min(reader.top_k, ntotal(index)) <= 0
              THEN [reader EXCEPT !.pc = "done", !.raised = TRUE]
              ELSE [reader EXCEPT !.pc = "search_106", !.pos = 1,
                                  !.ranked = Neighbours(index, query_embedding, reader.top_k)]
    /\ UNCHANGED <<use_openai, index_path, index, documents, metadata, dimension, fs,
                   last, results, writer, app, sessions, requests, caller, chunker>>

\* search lines 106-128: one turn of the loop, or the return after the last
Search106 ==
    /\ reader.pc = "search_106"
    /\ reader' =
          IF reader.pos > Len(reader.ranked)
          THEN [reader EXCEPT !.pc = "done"]
          ELSE [reader EXCEPT
                   !.pos = @ + 1,
                   !.out = @ \o FilterResults(<<reader.ranked[reader.pos]>>, documents,
                                              metadata, reader.threshold)]
    /\ UNCHANGED <<use_openai, index_path, index, documents, metadata, dimension, fs,
                   last, results, writer, app, sessions, requests, caller, chunker>>

NextConc ==
    \/ WriterCall
    \/ Build52
    \/ Build55
    \/ Build58
    \/ Build60
    \/ Add204
    \/ Add207
    \/ Add208
    \/ ReaderCall
    \/ Search87
    \/ Search99
    \/ Search106

SpecConc == InitConc /\ [][NextConc]_vars

-----------------------------------------------------------------------------
(* The store and the disk: index paths with and without ".index" in them,  *)
(* files that an earlier run wrote with either embedding generator, and    *)
(* save and load called by the caller, on the path the store was given as  *)
(* the callers of the repository do.                                       *)

\* the files of a build_index on a new store with generator `openai` and path
\* `path`, its save completed (dataOk) or stopped after the index file
EarlierRunOf(openai, path, docs, meta, dataOk) ==
    build_index(construct(NoFiles, openai, path), openai, path, docs, meta, TRUE, dataOk).fs

DiskInitialDisks ==
    {NoFiles} \cup
    {EarlierRunOf(openai, path, <<"b", "a">>, [given |-> TRUE, list |-> <<{<<"url", "x">>}>>],
                  dataOk) :
        openai \in BOOLEAN, path \in IndexPaths, dataOk \in BOOLEAN}

InitDisk ==
    /\ use_openai = FALSE
    /\ index_path \in DiskPaths
    /\ \E files \in DiskInitialDisks :
          LET S == construct(files, use_openai, index_path)
          IN  /\ ~S.raised
              /\ index = S.index
              /\ documents = S.documents
              /\ metadata = S.metadata
              /\ dimension = S.dimension
              /\ fs = S.fs
    /\ last = NoCall
    /\ results = <<>>
    /\ writer = NoWriter
    /\ reader = NoReader
    /\ sessions = NoSessions
    /\ requests = NoRequests
    /\ caller = NoCaller
    /\ chunker = NoChunker
    /\ app = NoApp

\* the caller calls save(index_path)
Save ==
    LET S == save(Self, index_path, TRUE)
    IN  /\ Idle
        /\ Become(S)
        /\ last' = [NoCall EXCEPT !.op = "save", !.path = index_path, !.raised = S.raised]
        /\ results' = <<>>
        /\ UNCHANGED <<use_openai, index_path, writer, reader, app, sessions, requests, caller, chunker>>

\* the caller calls load(index_path)
LoadOwn ==
    LET S == load(Self, use_openai, index_path)
    IN  /\ Idle
        /\ Become(S)
        /\ last' = [NoCall EXCEPT !.op = "load", !.path = index_path, !.raised = S.raised,
                                  !.warned = S.warned,
                                  !.had_documents = documents # <<>>]
        /\ results' = <<>>
        /\ UNCHANGED <<use_openai, index_path, writer, reader, app, sessions, requests, caller, chunker>>

NextDisk ==
    \/ Construct
    \/ BuildIndex
    \/ AddDocuments
    \/ LoadOwn
    \/ Save
    \/ Search
    \/ Return

SpecDisk == InitDisk /\ [][NextDisk]_vars

-----------------------------------------------------------------------------
(* main.py: startup (lifespan) and the two places of a chat request that   *)
(* search the store (get_knowledge_context, CitationExtractor).            *)

\* dict.get(key); "" stands for None
Get(dict, key) ==
    IF \E p \in dict : p[1] = key THEN (CHOOSE p \in dict : p[1] = key)[2] ELSE ""

\* _format_context: the parts that are joined into the context string
RECURSIVE FormatParts(_, _)
FormatParts(found, seen_urls) ==
    IF found = <<>> THEN <<>>
    ELSE LET url == Get(Head(found).metadata, "url")
             cite == url # "" /\ url \notin seen_urls
         IN  <<[kind |-> "text", value |-> Head(found).text]>>
                 \o (IF cite THEN <<[kind |-> "source", value |-> url]>> ELSE <<>>)
                 \o FormatParts(Tail(found), IF cite THEN seen_urls \cup {url} ELSE seen_urls)

format_context(found) == FormatParts(found, {})

\* CitationExtractor._extract_urls
RECURSIVE ExtractUrls(_, _)
ExtractUrls(found, seen_urls) ==
    IF found = <<>> THEN <<>>
    ELSE LET url == Get(Head(found).metadata, "url")
             cite == url # "" /\ url \notin seen_urls
         IN  (IF cite THEN <<url>> ELSE <<>>)
                 \o ExtractUrls(Tail(found), IF cite THEN seen_urls \cup {url} ELSE seen_urls)

\* get_knowledge_context that lets an exception of search through
get_knowledge_context_NoCatch(ready, S, openai, query, top_k, threshold) ==
    IF ~ready THEN [raised |-> FALSE, search_raised |-> FALSE, context |-> <<>>]
    ELSE LET r == search(S, openai, query, top_k, threshold)
         IN  [raised |-> r.raised, search_raised |-> r.raised,
              context |-> IF r.raised THEN <<>> ELSE format_context(r.results)]

\* get_knowledge_context(query): the context, and whether it raised
get_knowledge_context(ready, S, openai, query, top_k, threshold) ==
    IF ~ready THEN [raised |-> FALSE, search_raised |-> FALSE, context |-> <<>>]
    ELSE LET r == search(S, openai, query, top_k, threshold)
         IN  IF r.raised
             THEN [raised |-> FALSE, search_raised |-> TRUE, context |-> <<>>]
             ELSE [raised |-> FALSE, search_raised |-> FALSE,
                   context |-> format_context(r.results)]

\* CitationExtractor.extract_from_query(query), with the configured top_k and
\* threshold; has_store: the extractor was made with a store
extract_from_query(has_store, S, openai, query, top_k, threshold) ==
    IF ~has_store THEN [raised |-> FALSE, search_raised |-> FALSE, citations |-> <<>>]
    ELSE LET r == search(S, openai, query, top_k, threshold)
         IN  IF r.raised
             THEN [raised |-> FALSE, search_raised |-> TRUE, citations |-> <<>>]
             ELSE [raised |-> FALSE, search_raised |-> FALSE,
                   citations |-> ExtractUrls(r.results, {})]

\* check_index_exists
check_index_exists(files, path) == Exists(files, path) /\ Exists(files, DataPath(path))

\* which of the two index files are on disk
FilesFound(files, path) ==
    IF DataPath(path) = path THEN (IF Exists(files, path) THEN "both" ELSE "none")
    ELSE IF Exists(files, path)
         THEN (IF Exists(files, DataPath(path)) THEN "both" ELSE "index_only")
         ELSE (IF Exists(files, DataPath(path)) THEN "data_only" ELSE "none")

\* the store variables when vector_store_instance is None
Unset(files) == construct(files, FALSE, NoPath)

\* _initialize_vector_store: the store, or None (set = FALSE).
\* available: VECTOR_STORE_AVAILABLE; generator: how EmbeddingGenerator() ended
initialize_vector_store(files, path, available, generator) ==
    IF ~available THEN [set |-> FALSE, store |-> Unset(files), log |-> "not available"]
    ELSE IF generator # "ok"
         THEN [set |-> FALSE, store |-> Unset(files), log |-> "generator failed"]
         ELSE LET vector_store == construct(files, FALSE, path)
              IN  IF vector_store.raised
                  THEN [set |-> FALSE, store |-> Unset(files), log |-> "store failed"]
                  ELSE [set |-> TRUE, store |-> vector_store, log |-> "store made"]

\* _load_or_build_index without the early return of lines 144-146
load_or_build_index_NoLoadedCheck(S, path, mkdirOk, docs_dir, prepared, embedOk, dataOk) ==
    IF check_index_exists(S.fs, path)
    THEN [store |-> S, raised |-> FALSE, log |-> "files exist but failed to load", invoked |-> FALSE]
    ELSE IF ~mkdirOk
    THEN [store |-> S, raised |-> TRUE, log |-> "", invoked |-> FALSE]
    ELSE IF ~docs_dir
    THEN [store |-> S, raised |-> FALSE, log |-> "docs not found", invoked |-> FALSE]
    ELSE IF ~prepared.ok
    THEN [store |-> S, raised |-> FALSE, log |-> "error building", invoked |-> FALSE]
    ELSE IF prepared.texts = <<>>
    THEN [store |-> S, raised |-> FALSE, log |-> "no documents loaded", invoked |-> FALSE]
    ELSE LET B == build_index(S, FALSE, path, prepared.texts, prepared.meta, embedOk, dataOk)
         IN  [store |-> [B EXCEPT !.raised = FALSE], raised |-> FALSE,
              log |-> IF B.raised THEN "error building" ELSE "built", invoked |-> TRUE]

\* _load_or_build_index(vector_store): the store afterwards, and whether an
\* exception left the function.  mkdirOk: ensure_index_directory succeeded;
\* docs_dir: NEXTFLOW_DOCS_DIR is set and exists; prepared: what
\* prepare_documents_for_indexing gave
load_or_build_index(S, path, mkdirOk, docs_dir, prepared, embedOk, dataOk) ==
    IF S.index.present /\ ntotal(S.index) > 0
    THEN [store |-> S, raised |-> FALSE, log |-> "vectors loaded", invoked |-> FALSE]
    ELSE IF check_index_exists(S.fs, path)
    THEN [store |-> S, raised |-> FALSE, log |-> "files exist but failed to load", invoked |-> FALSE]
    ELSE IF ~mkdirOk
    THEN [store |-> S, raised |-> TRUE, log |-> "", invoked |-> FALSE]
    ELSE IF ~docs_dir
    THEN [store |-> S, raised |-> FALSE, log |-> "docs not found", invoked |-> FALSE]
    ELSE IF ~prepared.ok
    THEN [store |-> S, raised |-> FALSE, log |-> "error building", invoked |-> FALSE]
    ELSE IF prepared.texts = <<>>
    THEN [store |-> S, raised |-> FALSE, log |-> "no documents loaded", invoked |-> FALSE]
    ELSE LET B == build_index(S, FALSE, path, prepared.texts, prepared.meta, embedOk, dataOk)
         IN  [store |-> [B EXCEPT !.raised = FALSE], raised |-> FALSE,
              log |-> IF B.raised THEN "error building" ELSE "built", invoked |-> TRUE]

\* lifespan without the except clause of lines 208-212
lifespan_NoCatch(files, path, available, generator, mkdirOk, docs_dir, prepared, embedOk, dataOk) ==
    LET init == initialize_vector_store(files, path, available, generator)
        L == load_or_build_index(init.store, path, mkdirOk, docs_dir, prepared,
                                 embedOk, dataOk)
        none == [raised |-> FALSE, ready |-> FALSE, extractor |-> "without_store",
                 store |-> Unset(files), loaded |-> FALSE, step |-> "", invoked |-> FALSE,
                 log |-> ""]
    IN  IF ~available THEN [none EXCEPT !.log = "not installed"]
        ELSE IF ~init.set THEN [none EXCEPT !.log = "initialization failed"]
        ELSE IF L.raised
             THEN [none EXCEPT !.raised = TRUE, !.ready = TRUE, !.extractor = "unset",
                               !.store = L.store, !.loaded = init.store.index.present,
                               !.step = L.log, !.invoked = L.invoked]
        ELSE IF L.store.index.present /\ ntotal(L.store.index) > 0
             THEN [none EXCEPT !.ready = TRUE, !.extractor = "with_store", !.store = L.store,
                               !.loaded = init.store.index.present, !.step = L.log, !.invoked = L.invoked,
                               !.log = "ready"]
             ELSE [none EXCEPT !.store = Unset(L.store.fs),
                               !.loaded = init.store.index.present, !.step = L.log, !.invoked = L.invoked,
                               !.log = "index not loaded"]

\* lifespan, up to the yield: vector_store_instance (ready: it is not None;
\* store: its fields, and the files), citation_extractor, loaded: the
\* constructor loaded an index, step: what _load_or_build_index logged, and
\* whether an exception left the function
lifespan(files, path, available, generator, mkdirOk, docs_dir, prepared, embedOk, dataOk) ==
    LET init == initialize_vector_store(files, path, available, generator)
        L == load_or_build_index(init.store, path, mkdirOk, docs_dir, prepared,
                                 embedOk, dataOk)
        none == [raised |-> FALSE, ready |-> FALSE, extractor |-> "without_store",
                 store |-> Unset(files), loaded |-> FALSE, step |-> "", invoked |-> FALSE,
                 log |-> ""]
    IN  IF ~available THEN [none EXCEPT !.log = "not installed"]
        ELSE IF ~init.set THEN [none EXCEPT !.log = "initialization failed"]
        ELSE IF L.raised
             THEN [none EXCEPT !.store = Unset(L.store.fs),
                               !.loaded = init.store.index.present, !.step = L.log, !.invoked = L.invoked,
                               !.log = "falling back"]
        ELSE IF L.store.index.present /\ ntotal(L.store.index) > 0
             THEN [none EXCEPT !.ready = TRUE, !.extractor = "with_store", !.store = L.store,
                               !.loaded = init.store.index.present, !.step = L.log, !.invoked = L.invoked,
                               !.log = "ready"]
             ELSE [none EXCEPT !.store = Unset(L.store.fs),
                               !.loaded = init.store.index.present, !.step = L.log, !.invoked = L.invoked,
                               !.log = "index not loaded"]

\* what prepare_documents_for_indexing gives: an exception, no texts, or texts
\* with their metadata
PreparedDocs ==
    {[ok |-> FALSE, texts |-> <<>>, meta |-> NoMeta],
     [ok |-> TRUE, texts |-> <<>>, meta |-> [given |-> TRUE, list |-> <<>>]],
     [ok |-> TRUE, texts |-> <<"a", "b">>,
      meta |-> [given |-> TRUE, list |-> <<{<<"url", "x">>}, EmptyDict>>]]}

\* how EmbeddingGenerator() ends: lines 94, 97, 106
GeneratorOutcomes == {"ok", "import_error", "error"}

\* the disks startup may find: those of DiskInitialDisks, a side file whose
\* index file is gone, and the two files of an index built from no text
AppInitialDisks ==
    DiskInitialDisks \cup
    {[EarlierRunOf(FALSE, path, <<"b", "a">>, NoMeta, TRUE) EXCEPT ![path] = NoFile] :
        path \in IndexPaths} \cup
    {EarlierRunOf(FALSE, path, <<>>, NoMeta, TRUE) : path \in IndexPaths}

\* the process before startup, with its configuration: VECTOR_INDEX_PATH,
\* VECTOR_SEARCH_TOP_K, VECTOR_SEARCH_THRESHOLD
InitApp ==
    /\ use_openai = FALSE
    /\ index_path \in DiskPaths
    /\ \E files \in AppInitialDisks :
          LET S == Unset(files)
          IN  /\ index = S.index
              /\ documents = S.documents
              /\ metadata = S.metadata
              /\ dimension = S.dimension
              /\ fs = S.fs
    /\ last = NoCall
    /\ results = <<>>
    /\ writer = NoWriter
    /\ reader = NoReader
    /\ sessions = NoSessions
    /\ requests = NoRequests
    /\ caller = NoCaller
    /\ chunker = NoChunker
    /\ \E top_k \in TopKs, threshold \in Thresholds :
          app = [NoApp EXCEPT !.top_k = top_k, !.threshold = threshold]

\* startup
Lifespan ==
    \E available, mkdirOk, docs_dir, embedOk, dataOk \in BOOLEAN,
       generator \in GeneratorOutcomes, prepared \in PreparedDocs :
        LET L == lifespan(fs, index_path, available, generator, mkdirOk, docs_dir,
                          prepared, embedOk, dataOk)
        IN  /\ app.phase = "down"
            /\ Become(L.store)
            /\ app' = [app EXCEPT !.phase = IF L.raised THEN "failed" ELSE "up",
                                  !.ready = L.ready,
                                  !.extractor = L.extractor,
                                  !.raised = L.raised,
                                  !.log = L.log,
                                  !.step = L.step,
                                  !.invoked = L.invoked,
                                  !.found = FilesFound(fs, index_path),
                                  !.index_exists = check_index_exists(fs, index_path),
                                  !.loaded = L.loaded]
            /\ UNCHANGED <<use_openai, index_path, last, results, writer, reader, sessions, requests, caller, chunker>>

\* chat, lines 517-530: the context of the message
ChatContext ==
    \E query \in Queries :
        LET c == get_knowledge_context(app.ready, Self, use_openai, query,
                                       app.top_k, app.threshold)
        IN  /\ app.phase = "up"
            /\ app.pc = "idle"
            /\ app' = [app EXCEPT !.pc = IF c.raised THEN "error" ELSE "llm",
                                  !.query = query,
                                  !.context = c.context,
                                  !.search_raised = c.search_raised,
                                  !.chat_raised = c.raised]
            /\ UNCHANGED <<use_openai, index_path, index, documents, metadata, dimension, fs,
                           last, results, writer, reader, sessions, requests, caller, chunker>>

\* chat, lines 537-545: _get_citations(message), after the reply of the LLM
ChatCitations ==
    LET e == extract_from_query(app.extractor = "with_store", Self, use_openai, app.query,
                                app.top_k, app.threshold)
    IN  /\ app.pc = "llm"
        /\ app' = [app EXCEPT !.pc = IF e.raised THEN "error" ELSE "replied",
                              !.citations = e.citations,
                              !.search_raised = e.search_raised,
                              !.chat_raised = e.raised]
        /\ UNCHANGED <<use_openai, index_path, index, documents, metadata, dimension, fs,
                       last, results, writer, reader, sessions, requests, caller, chunker>>

\* the response is sent
ChatDone ==
    /\ app.pc \in {"replied", "error"}
    /\ app' = [app EXCEPT !.pc = "idle", !.query = "", !.context = <<>>, !.citations = <<>>,
                          !.search_raised = FALSE, !.chat_raised = FALSE]
    /\ UNCHANGED <<use_openai, index_path, index, documents, metadata, dimension, fs,
                   last, results, writer, reader, sessions, requests, caller, chunker>>

\* the process ends; the files stay
Shutdown ==
    /\ app.phase = "up"
    /\ app.pc = "idle"
    /\ Become(Unset(fs))
    /\ app' = [NoApp EXCEPT !.top_k = app.top_k, !.threshold = app.threshold]
    /\ UNCHANGED <<use_openai, index_path, last, results, writer, reader, sessions, requests, caller, chunker>>

NextApp ==
    \/ Lifespan
    \/ ChatContext
    \/ ChatCitations
    \/ ChatDone
    \/ Shutdown

SpecApp == InitApp /\ [][NextApp]_vars

-----------------------------------------------------------------------------
(* The session store of backend/session_manager.py: a dictionary from       *)
(* session id to the list of that session's messages.  A message is its    *)
(* role and its content; its timestamp is left out.                        *)

MaxHistory == 2     \* messages of one session

SessionIds == {"s1", "s2"}
NoSessionId == ""                   \* None, or the empty string: both are falsy
Contents == {"hello", "again"}
Message(role, content) == [role |-> role, content |-> content]

\* get_or_create_session that starts the session's history afresh every time
get_or_create_session_Reset(S, session_id, uuid) ==
    LET sid == IF session_id = NoSessionId THEN uuid ELSE session_id
    IN  [sessions |-> [s \in DOMAIN S \cup {sid} |-> IF s = sid THEN <<>> ELSE S[s]],
         returned |-> sid, raised |-> FALSE]

\* get_or_create_session, lines 15-24; uuid is the value of uuid.uuid4()
get_or_create_session(S, session_id, uuid) ==
    LET sid == IF session_id = NoSessionId THEN uuid ELSE session_id
    IN  [sessions |-> IF sid \notin DOMAIN S
                      THEN [s \in DOMAIN S \cup {sid} |-> IF s = sid THEN <<>> ELSE S[s]]
                      ELSE S,
         returned |-> sid, raised |-> FALSE]

\* sessions[session_id].append(...): KeyError when the session does not exist
AppendMessage(S, session_id, role, content) ==
    IF session_id \notin DOMAIN S
    THEN [sessions |-> S, returned |-> <<>>, raised |-> TRUE]
    ELSE [sessions |-> [S EXCEPT ![session_id] = Append(@, Message(role, content))],
          returned |-> <<>>, raised |-> FALSE]

\* add_user_message, lines 27-33
add_user_message(S, session_id, content) == AppendMessage(S, session_id, "user", content)

\* add_assistant_message, lines 36-42
add_assistant_message(S, session_id, content) ==
    AppendMessage(S, session_id, "assistant", content)

\* get_conversation_history, lines 45-47: a copy of the list, [] when unknown
get_conversation_history(S, session_id) ==
    [sessions |-> S,
     returned |-> IF session_id \in DOMAIN S THEN S[session_id] ELSE <<>>,
     raised |-> FALSE]

\* clear_session, lines 50-53
clear_session(S, session_id) ==
    [sessions |-> IF session_id \in DOMAIN S THEN [S EXCEPT ![session_id] = <<>>] ELSE S,
     returned |-> <<>>, raised |-> FALSE]

\* The caller of the session store: its latest call, what the call returned,
\* and the messages it added to each session since the session was created
\* or cleared.
SessionCaller(op, session_id, existed, R, log) ==
    [op |-> op, session_id |-> session_id, existed |-> existed,
     returned |-> R.returned, raised |-> R.raised, log |-> log]

InitSession ==
    /\ use_openai = FALSE
    /\ index_path = NoPath
    /\ index = NoIndex
    /\ documents = <<>>
    /\ metadata = <<>>
    /\ dimension = GeneratorDimension(FALSE)
    /\ fs = NoFiles
    /\ last = NoCall
    /\ results = <<>>
    /\ writer = NoWriter
    /\ reader = NoReader
    /\ app = NoApp
    /\ sessions = <<>>
    /\ requests = NoRequests
    /\ caller = SessionCaller("none", NoSessionId, FALSE,
                              [returned |-> <<>>, raised |-> FALSE], <<>>)
    /\ chunker = NoChunker

SessionFrame ==
    UNCHANGED <<use_openai, index_path, index, documents, metadata, dimension, fs, last,
                results, writer, reader, app, requests, chunker>>

\* the log of a caller that has just been given the session sid
LogWith(log, sid) ==
    IF sid \in DOMAIN log THEN log
    ELSE [s \in DOMAIN log \cup {sid} |-> IF s = sid THEN <<>> ELSE log[s]]

GetOrCreateSession ==
    \E session_id \in SessionIds \cup {NoSessionId}, uuid \in SessionIds :
        LET R == get_or_create_session(sessions, session_id, uuid)
        IN  /\ session_id = NoSessionId => uuid \notin DOMAIN sessions    \* a uuid4 is new
            /\ sessions' = R.sessions
            /\ caller' = SessionCaller("get_or_create_session", session_id,
                                       session_id \in DOMAIN sessions, R,
                                       LogWith(caller.log, R.returned))
            /\ SessionFrame

AddUserMessage ==
    \E session_id \in SessionIds, content \in Contents :
        LET R == add_user_message(sessions, session_id, content)
        IN  /\ session_id \in DOMAIN sessions => Len(sessions[session_id]) < MaxHistory
            /\ sessions' = R.sessions
            /\ caller' = SessionCaller("add_user_message", session_id,
                                       session_id \in DOMAIN sessions, R,
                                       IF R.raised THEN caller.log
                                       ELSE [caller.log EXCEPT ![session_id] =
                                                Append(@, Message("user", content))])
            /\ SessionFrame

AddAssistantMessage ==
    \E session_id \in SessionIds, content \in Contents :
        LET R == add_assistant_message(sessions, session_id, content)
        IN  /\ session_id \in DOMAIN sessions => Len(sessions[session_id]) < MaxHistory
            /\ sessions' = R.sessions
            /\ caller' = SessionCaller("add_assistant_message", session_id,
                                       session_id \in DOMAIN sessions, R,
                                       IF R.raised THEN caller.log
                                       ELSE [caller.log EXCEPT ![session_id] =
                                                Append(@, Message("assistant", content))])
            /\ SessionFrame

GetConversationHistory ==
    \E session_id \in SessionIds :
        LET R == get_conversation_history(sessions, session_id)
        IN  /\ sessions' = R.sessions
            /\ caller' = SessionCaller("get_conversation_history", session_id,
                                       session_id \in DOMAIN sessions, R, caller.log)
            /\ SessionFrame

ClearSession ==
    \E session_id \in SessionIds :
        LET R == clear_session(sessions, session_id)
        IN  /\ sessions' = R.sessions
            /\ caller' = SessionCaller("clear_session", session_id,
                                       session_id \in DOMAIN sessions, R,
                                       IF session_id \in DOMAIN caller.log
                                       THEN [caller.log EXCEPT ![session_id] = <<>>]
                                       ELSE caller.log)
            /\ SessionFrame

NextSession ==
    \/ GetOrCreateSession
    \/ AddUserMessage
    \/ AddAssistantMessage
    \/ GetConversationHistory
    \/ ClearSession

SpecSession == InitSession /\ [][NextSession]_vars

-----------------------------------------------------------------------------
(* A store with an index_path whose saves may be interrupted: save writes   *)
(* the index file (line 136) and then the side file (lines 139-145); when   *)
(* the process stops or the write fails between the two, the index file is  *)
(* the new one and the side file is what it was.  The only calls that save  *)
(* here are build_index calls, so what one save writes is always an index   *)
(* that holds the embeddings of the documents written with it.              *)

InitCrash ==
    /\ use_openai = FALSE
    /\ index_path \in IndexPaths
    /\ LET S == construct(NoFiles, use_openai, index_path)
       IN  /\ index = S.index
           /\ documents = S.documents
           /\ metadata = S.metadata
           /\ dimension = S.dimension
           /\ fs = S.fs
    /\ last = NoCall
    /\ results = <<>>
    /\ writer = NoWriter
    /\ reader = NoReader
    /\ sessions = NoSessions
    /\ requests = NoRequests
    /\ caller = NoCaller
    /\ chunker = NoChunker
    /\ app = NoApp

\* build_index whose save stops after faiss.write_index
BuildIndexInterrupted ==
    \E docs \in TextSeqs, meta \in MetaArgs :
        LET S == build_index(Self, use_openai, index_path, docs, meta, TRUE, FALSE)
        IN  /\ Idle
            /\ Become(S)
            /\ last' = [NoCall EXCEPT !.op = "build_index", !.texts = docs, !.meta = meta,
                                      !.raised = S.raised, !.had_index = index.present]
            /\ results' = <<>>
            /\ UNCHANGED <<use_openai, index_path, writer, reader, app, sessions, requests,
                           caller, chunker>>

NextCrash ==
    \/ Construct
    \/ BuildIndex
    \/ BuildIndexInterrupted
    \/ Search
    \/ Return

SpecCrash == InitCrash /\ [][NextCrash]_vars

-----------------------------------------------------------------------------
(* The caller of build_index and add_documents.  Python passes lists by     *)
(* reference: `self.documents = documents` (line 58) makes the store hold   *)
(* the caller's list object itself, while the metadata list the store keeps *)
(* is always a new list (lines 61, 65, 67: a repetition, a concatenation, a *)
(* slice).  The caller's record holds what its lists held when it passed    *)
(* them, whether the store's lists are the same objects, and the metadata   *)
(* it supplied for each text it added.                                      *)

\* the metadata the caller supplied for each text of one call, the empty
\* mapping where it supplied none
Supplied(docs, meta) ==
    [i \in 1..Len(docs) |->
        IF meta.given /\ i <= Len(meta.list) THEN meta.list[i] ELSE EmptyDict]

\* the caller after build_index(docs, meta) went through lines 58-67
PassedToBuild(docs, meta) ==
    [supplied |-> Supplied(docs, meta),
     docs_passed |-> docs,
     meta_passed |-> meta,
     documents_is_docs |-> TRUE,        \* line 58: self.documents = documents
     metadata_is_meta |-> FALSE]        \* lines 61-67: a new list

\* the caller after add_documents(docs, meta) went through lines 207-211: the
\* lists it passed to this call are only read
PassedToAdd(C, docs, meta) == [C EXCEPT !.supplied = @ \o Supplied(docs, meta)]

\* no list passed yet: a new store
NewCaller ==
    [supplied |-> <<>>, docs_passed |-> <<>>, meta_passed |-> NoMeta,
     documents_is_docs |-> FALSE, metadata_is_meta |-> FALSE]

InitCaller ==
    /\ use_openai = FALSE
    /\ index_path = NoPath
    /\ LET S == construct(NoFiles, use_openai, index_path)
       IN  /\ index = S.index
           /\ documents = S.documents
           /\ metadata = S.metadata
           /\ dimension = S.dimension
           /\ fs = S.fs
    /\ last = NoCall
    /\ results = <<>>
    /\ writer = NoWriter
    /\ reader = NoReader
    /\ sessions = NoSessions
    /\ requests = NoRequests
    /\ caller = NewCaller
    /\ chunker = NoChunker
    /\ app = NoApp

CallerBuildIndex ==
    \E docs \in TextSeqs, meta \in MetaArgs :
      \E embedOk \in EmbedOutcomes(docs) :
        LET S == build_index(Self, use_openai, index_path, docs, meta, embedOk, TRUE)
        IN  /\ Idle
            /\ Become(S)
            /\ last' = [NoCall EXCEPT !.op = "build_index", !.texts = docs, !.meta = meta,
                                      !.raised = S.raised, !.had_index = index.present]
            /\ results' = <<>>
            /\ caller' = IF S.raised THEN caller ELSE PassedToBuild(docs, meta)
            /\ UNCHANGED <<use_openai, index_path, writer, reader, app, sessions, requests,
                           chunker>>

CallerAddDocuments ==
    \E docs \in TextSeqs, meta \in MetaArgs :
      \E embedOk \in EmbedOutcomes(docs) :
        LET S == add_documents(Self, use_openai, index_path, docs, meta, embedOk, TRUE)
        IN  /\ Idle
            /\ ntotal(index) + Len(docs) <= MaxTotal
            /\ Len(documents) + Len(docs) <= MaxTotal
            /\ Len(metadata) + Len(meta.list) <= MaxTotal + 1
            /\ Become(S)
            /\ last' = [NoCall EXCEPT !.op = "add_documents", !.texts = docs, !.meta = meta,
                                      !.raised = S.raised, !.had_index = index.present]
            /\ results' = <<>>
            /\ caller' = IF S.raised THEN caller
                         ELSE IF ~index.present THEN PassedToBuild(docs, meta)
                         ELSE PassedToAdd(caller, docs, meta)
            /\ UNCHANGED <<use_openai, index_path, writer, reader, app, sessions, requests,
                           chunker>>

NextCaller ==
    \/ CallerBuildIndex
    \/ CallerAddDocuments
    \/ Search
    \/ Return

SpecCaller == InitCaller /\ [][NextCaller]_vars

-----------------------------------------------------------------------------
(* chunk_text of backend/vector_store/document_loader.py.  A text is its    *)
(* length and the positions of its '.' and newline characters (the other    *)
(* characters play no part in the loop); a chunk is the range of positions  *)
(* it was cut from, before strip().                                         *)

MaxChunkSize == 5       \* chunk_size, in tokens
MaxTextLen == 22        \* characters of a text
MaxBreaks == 1          \* '.' and newline characters of a text
MaxChunks == 8          \* chunks of one call

ChunkTexts ==
    {[len |-> n, breaks |-> B] :
        n \in 0..MaxTextLen,
        B \in {X \in SUBSET (0..(MaxTextLen - 1)) : Cardinality(X) <= MaxBreaks}}

Max(a, b) == IF a > b THEN a ELSE b

\* a slice bound as Python reads it: negative bounds count from the end
SliceBound(i, n) == IF i < 0 THEN Max(i + n, 0) ELSE Min(i, n)

\* text[start:end]
Slice(text, start, end) ==
    LET from == SliceBound(start, text.len)
        to == SliceBound(end, text.len)
    IN  [from |-> from, to |-> Max(from, to)]

\* max(chunk.rfind('.'), chunk.rfind('\n')): the last break of the chunk,
\* counted from the chunk's start, -1 when it has none
LastBreak(text, chunk) ==
    LET inside == {p \in text.breaks : chunk.from <= p /\ p < chunk.to}
    IN  IF inside = {} THEN -1
        ELSE (CHOOSE p \in inside : \A q \in inside : q <= p) - chunk.from

\* one iteration of the loop, lines 46-61: the chunk appended and the new start
ChunkStep(text, chunk_size, overlap, start) ==
    LET char_size == chunk_size * 4
        char_overlap == overlap * 4
        end == start + char_size
        chunk == Slice(text, start, end)
        break_point == LastBreak(text, chunk)
        good == end < text.len /\ 10 * break_point > 7 * char_size
        cut == IF good THEN [chunk EXCEPT !.to = Min(chunk.from + break_point + 1, chunk.to)]
               ELSE chunk
        end2 == IF good THEN start + break_point + 1 ELSE end
    IN  [chunk |-> cut, start |-> end2 - char_overlap]

NewChunker(text, chunk_size, overlap) ==
    [text |-> text, chunk_size |-> chunk_size, overlap |-> overlap,
     start |-> 0, chunks |-> <<>>, pc |-> "loop"]

InitChunk ==
    /\ use_openai = FALSE
    /\ index_path = NoPath
    /\ index = NoIndex
    /\ documents = <<>>
    /\ metadata = <<>>
    /\ dimension = GeneratorDimension(FALSE)
    /\ fs = NoFiles
    /\ last = NoCall
    /\ results = <<>>
    /\ writer = NoWriter
    /\ reader = NoReader
    /\ app = NoApp
    /\ sessions = NoSessions
    /\ requests = NoRequests
    /\ caller = NoCaller
    /\ \E text \in ChunkTexts, chunk_size \in 1..MaxChunkSize :
         \E overlap \in 0..(chunk_size - 1) :
            /\ text.breaks \subseteq 0..(text.len - 1)
            /\ chunker = NewChunker(text, chunk_size, overlap)

ChunkFrame ==
    UNCHANGED <<use_openai, index_path, index, documents, metadata, dimension, fs, last,
                results, writer, reader, app, sessions, requests, caller>>

\* while start < len(text): one more chunk
ChunkLoop ==
    /\ chunker.pc = "loop"
    /\ chunker.start < chunker.text.len
    /\ Len(chunker.chunks) < MaxChunks
    /\ LET R == ChunkStep(chunker.text, chunker.chunk_size, chunker.overlap, chunker.start)
       IN  chunker' = [chunker EXCEPT !.chunks = Append(@, R.chunk), !.start = R.start]
    /\ ChunkFrame

\* the loop ends: return chunks
ChunkReturn ==
    /\ chunker.pc = "loop"
    /\ ~(chunker.start < chunker.text.len)
    /\ chunker' = [chunker EXCEPT !.pc = "done"]
    /\ ChunkFrame

NextChunk ==
    \/ ChunkLoop
    \/ ChunkReturn

SpecChunk == InitChunk /\ [][NextChunk]_vars

-----------------------------------------------------------------------------
(* The /chat endpoint of backend/main.py and its session dictionary.  The   *)
(* handler is a coroutine: it runs without interruption up to the await of  *)
(* the LLM call (run_in_executor, line 389), where other requests run, and  *)
(* again from the LLM's answer or failure to the next await or to its end.  *)
(* The LLM answers a question with the answer to that question, or fails.   *)

MAX_INPUT_LENGTH == 500000

RequestIds == {"r1", "r2"}
Question(r) == IF r = "r1" THEN "q1" ELSE "q2"
Answer(q) == IF q = "q0" THEN "a0" ELSE IF q = "q1" THEN "a1" ELSE "a2"

\* the message field of the requests r may send: empty, blank, a question,
\* a question longer than the limit
ChatInputs(r) ==
    {[text |-> "", length |-> 0],
     [text |-> " ", length |-> 1],
     [text |-> Question(r), length |-> 2],
     [text |-> Question(r), length |-> MAX_INPUT_LENGTH + 1]}

\* not message.message or not message.message.strip()
IsBlank(text) == text \in {"", " "}

\* what get_knowledge_context returns for the message: "" or formatted context
Contexts == {"", "docs"}

\* what _get_citations returns
Citations == {<<>>, <<"x">>}

LLMFailure == [ok |-> FALSE, reply |-> ""]
LLMReply(q) == [ok |-> TRUE, reply |-> Answer(q)]

\* the sessions dictionary before the requests: empty, or one session with
\* one exchange
EarlierSessions ==
    {<<>>, [s \in {"s1"} |-> <<Message("user", "q0"), Message("assistant", Answer("q0"))>>]}

\* _build_messages, lines 359-371: the history, then the query, prefixed by
\* the context when there is one
build_messages(conversation_history, query, context) ==
    [history |-> conversation_history,
     user_message |-> IF context # "" THEN [context |-> context, question |-> query]
                      ELSE [context |-> "", question |-> query]]

\* _get_or_create_session, _add_user_message, _add_assistant_message of
\* main.py (lines 453-480): the same code as session_manager.py's, on
\* main.py's own dictionary
chat_get_or_create_session(S, session_id, uuid) == get_or_create_session(S, session_id, uuid)
chat_add_user_message(S, session_id, message) == add_user_message(S, session_id, message)
chat_add_assistant_message(S, session_id, reply) == add_assistant_message(S, session_id, reply)

\* a request that has not arrived
NewRequest ==
    [pc |-> "new", message |-> [text |-> "", length |-> 0], session_arg |-> NoSessionId,
     session_id |-> NoSessionId, conversation_history |-> <<>>, context |-> "",
     calls |-> <<>>, outcomes |-> <<>>, reply |-> "", citations |-> <<>>, status |-> 0,
     before |-> <<>>]

\* get_llm_response that gives up after the first failure
get_llm_response_NoFallback(req, outcome) ==
    LET got == [req EXCEPT !.outcomes = Append(@, outcome)]
    IN  IF outcome.ok THEN [got EXCEPT !.pc = "replied", !.reply = outcome.reply]
        ELSE [got EXCEPT !.pc = "failed"]

\* get_llm_response, lines 397-415, from the await it is suspended at: the
\* first call (pc "call") or the fallback call (pc "fallback") has ended with
\* `outcome`
get_llm_response(req, outcome) ==
    LET got == [req EXCEPT !.outcomes = Append(@, outcome)]
    IN  IF outcome.ok THEN [got EXCEPT !.pc = "replied", !.reply = outcome.reply]
        ELSE IF req.pc = "call"
             THEN [got EXCEPT !.pc = "fallback",
                              !.calls = Append(@, build_messages(req.conversation_history,
                                                                 req.message.text, ""))]
             ELSE [got EXCEPT !.pc = "failed"]

\* chat, lines 493-531: from the arrival of the request to the await of the
\* first LLM call, or to the HTTP 400
chat_receive(S, message, session_arg, uuid, context) ==
    LET arrived == [NewRequest EXCEPT !.message = message, !.session_arg = session_arg,
                                      !.before = S]
    IN  IF IsBlank(message.text) \/ message.length > MAX_INPUT_LENGTH
        THEN [sessions |-> S, request |-> [arrived EXCEPT !.pc = "done", !.status = 400]]
        ELSE LET G == chat_get_or_create_session(S, session_arg, uuid)
                 session_id == G.returned
                 conversation_history == G.sessions[session_id]
                 A == chat_add_user_message(G.sessions, session_id, message.text)
             IN  [sessions |-> A.sessions,
                  request |-> [arrived EXCEPT
                      !.pc = "call",
                      !.session_id = session_id,
                      !.conversation_history = conversation_history,
                      !.context = context,
                      !.calls = <<build_messages(conversation_history, message.text,
                                                 context)>>]]

\* chat, lines 531-554: from the end of an LLM call to the next await or to
\* the response
chat_resume(S, req, outcome, citations) ==
    LET got == get_llm_response(req, outcome)
    IN  IF got.pc = "fallback" THEN [sessions |-> S, request |-> got]
        ELSE IF got.pc = "failed"
             THEN [sessions |-> S, request |-> [got EXCEPT !.pc = "done", !.status = 500]]
             ELSE LET A == chat_add_assistant_message(S, got.session_id, got.reply)
                  IN  IF A.raised
                      THEN [sessions |-> S,
                            request |-> [got EXCEPT !.pc = "done", !.status = 500]]
                      ELSE [sessions |-> A.sessions,
                            request |-> [got EXCEPT !.pc = "done", !.status = 200,
                                                    !.citations = citations]]

InitChat ==
    /\ use_openai = FALSE
    /\ index_path = NoPath
    /\ index = NoIndex
    /\ documents = <<>>
    /\ metadata = <<>>
    /\ dimension = GeneratorDimension(FALSE)
    /\ fs = NoFiles
    /\ last = NoCall
    /\ results = <<>>
    /\ writer = NoWriter
    /\ reader = NoReader
    /\ app = NoApp
    /\ sessions \in EarlierSessions
    /\ requests = [r \in RequestIds |-> NewRequest]
    /\ caller = NoCaller
    /\ chunker = NoChunker

ChatFrame ==
    UNCHANGED <<use_openai, index_path, index, documents, metadata, dimension, fs, last,
                results, writer, reader, app, caller, chunker>>

\* a request arrives and runs to its first await, or is refused
ChatReceive ==
    \E r \in RequestIds :
      \E message \in ChatInputs(r), session_arg \in SessionIds \cup {NoSessionId},
         uuid \in SessionIds, context \in Contexts :
        LET R == chat_receive(sessions, message, session_arg, uuid, context)
        IN  /\ requests[r].pc = "new"
            /\ session_arg = NoSessionId => uuid \notin DOMAIN sessions     \* a uuid4 is new
            /\ sessions' = R.sessions
            /\ requests' = [requests EXCEPT ![r] = R.request]
            /\ ChatFrame

\* the LLM call a request awaits returns a reply
LLMAnswers ==
    \E r \in RequestIds, citations \in Citations :
        LET R == chat_resume(sessions, requests[r], LLMReply(requests[r].message.text),
                             citations)
        IN  /\ requests[r].pc \in {"call", "fallback"}
            /\ sessions' = R.sessions
            /\ requests' = [requests EXCEPT ![r] = R.request]
            /\ ChatFrame

\* the LLM call a request awaits raises
LLMFails ==
    \E r \in RequestIds :
        LET R == chat_resume(sessions, requests[r], LLMFailure, <<>>)
        IN  /\ requests[r].pc \in {"call", "fallback"}
            /\ sessions' = R.sessions
            /\ requests' = [requests EXCEPT ![r] = R.request]
            /\ ChatFrame

NextChat ==
    \/ ChatReceive
    \/ LLMAnswers
    \/ LLMFails

SpecChat == InitChat /\ [][NextChat]_vars

-----------------------------------------------------------------------------
(* Properties *)

\* a mutating call of the store has returned (it did not raise)
Returned(op) == last.op = op /\ ~last.raised

\* the query vector of the latest search
QueryVector == normalize_L2(embed(use_openai, last.query))

\* the neighbours the latest search obtained from the index
Near == Neighbours(index, QueryVector, last.top_k)

\* The metadata rule of build: one entry per text, the supplied entry where
\* there is one, an empty mapping otherwise.
RuleMetadata(texts, meta) ==
    [i \in 1..Len(texts) |->
        IF meta.given /\ i <= Len(meta.list) THEN meta.list[i] ELSE EmptyDict]

\* C1: after a build_index, add_documents or load call has returned, the number
\* of vectors, the number of documents and the number of metadata entries are
\* equal.
C1_ParallelLengths ==
    (Returned("build_index") \/ Returned("add_documents") \/ Returned("load"))
        => /\ ntotal(index) = Len(documents)
           /\ Len(documents) = Len(metadata)

\* what the writer's call makes of the store it was called on
AfterWriter ==
    IF writer.op = "build_index"
    THEN build_index(writer.before, use_openai, index_path, writer.docs, writer.meta, TRUE, TRUE)
    ELSE add_documents(writer.before, use_openai, index_path, writer.docs, writer.meta,
                       TRUE, TRUE)

\* the tuples a store can give for a query: position i of the index with
\* document i and metadata entry i of that same store
TuplesOf(S, query) ==
    LET qv == normalize_L2(embed(use_openai, query))
    IN  {[text |-> S.documents[i],
          similarity |-> InnerProduct(qv, S.index.vecs[i]),
          metadata |-> IF i <= Len(S.metadata) THEN S.metadata[i] ELSE EmptyDict] :
            i \in 1..Min(ntotal(S.index), Len(S.documents))}

\* C2: every tuple returned by a search that runs while a build_index or
\* add_documents call is in progress on the same store is a tuple of the store
\* as it was before that call, or a tuple of the store as that call leaves it;
\* none pairs a position of one index with the document or metadata of the other.
C2_NoMixedResults ==
    (reader.pc = "done" /\ writer.pc # "idle") =>
        \A n \in 1..Len(reader.out) :
            \/ reader.out[n] \in TuplesOf(writer.before, reader.query)
            \/ reader.out[n] \in TuplesOf(AfterWriter, reader.query)

\* C3: on a store whose N vectors were built by build_index/add_documents, a
\* search with top_k = k >= 1 and threshold 0.0 returns exactly min(k, N) tuples.
C3_Cardinality ==
    (Returned("search") /\ last.threshold = 0 /\ last.top_k >= 1
        /\ ntotal(index) = Len(documents))
        => Len(results) = Min(last.top_k, ntotal(index))

\* C3 as the code has it: with threshold 0.0 the search returns those of the
\* min(k, N) nearest neighbours whose similarity is at least 0.0; so at most
\* min(k, N) tuples, and exactly min(k, N) when none of them is negative.
C3_CardinalityNonNegative ==
    (Returned("search") /\ last.threshold = 0 /\ last.top_k >= 1
        /\ ntotal(index) = Len(documents))
        => /\ Len(Near) = Min(last.top_k, ntotal(index))
           /\ Len(results) = Cardinality({i \in 1..Len(Near) : Near[i].similarity >= 0})
           /\ Len(results) <= Min(last.top_k, ntotal(index))
           /\ (\A i \in 1..Len(Near) : Near[i].similarity >= 0)
                 => Len(results) = Min(last.top_k, ntotal(index))

\* a search with threshold 0.0 has dropped a neighbour of negative similarity
C3_Witness ==
    /\ Returned("search") /\ last.threshold = 0 /\ last.top_k >= 1
    /\ ntotal(index) = Len(documents)
    /\ results # <<>>
    /\ Len(results) < Min(last.top_k, ntotal(index))

\* C4: every tuple a search returns has a similarity of at least the threshold,
\* and the same search with a higher threshold never returns more tuples.
C4_Threshold ==
    Returned("search") =>
        /\ \A i \in 1..Len(results) : results[i].similarity >= last.threshold
        /\ \A t \in Thresholds :
              LET other == search(Self, use_openai, last.query, last.top_k, t)
              IN  /\ ~other.raised
                  /\ t >= last.threshold => Len(other.results) <= Len(results)
                  /\ t <= last.threshold => Len(other.results) >= Len(results)

\* a search returned tuples of which a higher threshold removes some
C4_Witness ==
    /\ Returned("search")
    /\ results # <<>>
    /\ \E t \in Thresholds :
          /\ t > last.threshold
          /\ Len(search(Self, use_openai, last.query, last.top_k, t).results) < Len(results)

RECURSIVE IsSubsequence(_, _)
IsSubsequence(a, b) ==
    IF a = <<>> THEN TRUE
    ELSE IF b = <<>> THEN FALSE
    ELSE \/ Head(a) = Head(b) /\ IsSubsequence(Tail(a), Tail(b))
         \/ IsSubsequence(a, Tail(b))

\* the ranked neighbours as (text, similarity) pairs; a position that has no
\* document stands for itself
RankedPairs ==
    [i \in 1..Len(Near) |->
        [text |-> IF Near[i].idx < Len(documents) THEN documents[Near[i].idx + 1] ELSE "",
         similarity |-> Near[i].similarity]]

ResultPairs ==
    [i \in 1..Len(results) |-> [text |-> results[i].text, similarity |-> results[i].similarity]]

\* C5: the similarities of the returned tuples are non-increasing, and the
\* returned tuples are the ranked neighbours with some removed, in ranking order.
C5_Ranking ==
    Returned("search") =>
        /\ \A i, j \in 1..Len(results) :
              i < j => results[i].similarity >= results[j].similarity
        /\ IsSubsequence(ResultPairs, RankedPairs)

\* a search returned two tuples of different similarity
C5_Witness ==
    /\ Returned("search")
    /\ Len(results) >= 2
    /\ results[1].similarity > results[2].similarity
    /\ results[1].text # results[2].text

\* C6: a search on a store without an index, or whose index holds no vector,
\* returns the empty list and does not raise.
C6_EmptyIndex ==
    (last.op = "search" /\ (~index.present \/ ntotal(index) = 0))
        => ~last.raised /\ results = <<>>

\* a search with top_k = 0 ran on an index that holds no vector
C6_Witness ==
    /\ last.op = "search"
    /\ index.present
    /\ ntotal(index) = 0
    /\ last.top_k = 0

\* C7: after build_index(texts, metadata) the stored metadata has one entry per
\* text: the supplied entry where there is one, an empty mapping otherwise.
C7_BuildMetadata ==
    Returned("build_index") =>
        /\ Len(metadata) = Len(last.texts)
        /\ metadata = RuleMetadata(last.texts, last.meta)

\* build_index returned after padding a non-empty, shorter metadata list
C7_Witness ==
    /\ Returned("build_index")
    /\ last.meta.given
    /\ last.meta.list # <<>>
    /\ Len(last.meta.list) < Len(last.texts)
    /\ last.meta.list[1] # EmptyDict

\* C8: add_documents on a store that has an index extends the stored metadata
\* by the entries the rule of build gives the new batch.
C8_AddMetadataRule ==
    [][(last'.op = "add_documents" /\ ~last'.raised /\ last'.had_index)
          => metadata' = metadata \o RuleMetadata(last'.texts, last'.meta)]_vars

\* C9: add_documents on a store that has an index appends: vectors and
\* documents grow by the number of new texts (equal counts stay equal), and
\* what was stored keeps its place.
C9_Append ==
    [][(last'.op = "add_documents" /\ ~last'.raised /\ last'.had_index)
          => /\ ntotal(index') = ntotal(index) + Len(last'.texts)
             /\ Len(documents') = Len(documents) + Len(last'.texts)
             /\ ntotal(index) = Len(documents) => ntotal(index') = Len(documents')
             /\ SubSeq(documents', 1, Len(documents)) = documents
             /\ SubSeq(documents', Len(documents) + 1, Len(documents')) = last'.texts
             /\ SubSeq(index'.vecs, 1, ntotal(index)) = index.vecs
             /\ Len(metadata') >= Len(metadata)
             /\ SubSeq(metadata', 1, Len(metadata)) = metadata]_vars

\* add_documents added a text to a store that held a different one
C9_Witness ==
    /\ Returned("add_documents")
    /\ last.had_index
    /\ Len(last.texts) = 1
    /\ Len(documents) = 2
    /\ documents[1] # documents[2]

\* C10: add_documents on a store without an index leaves index, documents,
\* metadata, dimension and files as build_index would from the same state.
C10_AddAsBuild ==
    [][(last'.op = "add_documents" /\ ~last'.had_index)
          => \E ok \in BOOLEAN :
                LET B == build_index(Self, use_openai, index_path,
                                     last'.texts, last'.meta, ok, TRUE)
                IN  /\ B.raised = last'.raised
                    /\ index' = B.index
                    /\ documents' = B.documents
                    /\ metadata' = B.metadata
                    /\ dimension' = B.dimension
                    /\ fs' = B.fs]_vars

\* add_documents on a store without an index returned, and the files hold
\* what it stored
C10_Witness ==
    /\ Returned("add_documents")
    /\ ~last.had_index
    /\ Len(last.texts) = 2
    /\ index_path # NoPath
    /\ fs[index_path].index = index
    /\ fs[DataPath(index_path)].documents = last.texts

\* the store a new instance becomes when the latest build_index call is made on it
FreshlyBuilt ==
    build_index(construct(NoFiles, use_openai, NoPath), use_openai, NoPath,
                last.texts, last.meta, TRUE, TRUE)

\* C11: after build_index(X, M) has returned the store holds the texts X and
\* nothing else, whatever it held before: as many vectors and documents as X
\* has texts, and every search returns what it returns on a new store on
\* which build_index(X, M) was called.
C11_BuildReplaces ==
    Returned("build_index") =>
        /\ documents = last.texts
        /\ ntotal(index) = Len(last.texts)
        /\ Len(documents) = Len(last.texts)
        /\ index = FreshlyBuilt.index
        /\ metadata = FreshlyBuilt.metadata
        /\ \A query \in Queries, top_k \in TopKs, threshold \in Thresholds :
              search(Self, use_openai, query, top_k, threshold)
                  = search(FreshlyBuilt, use_openai, query, top_k, threshold)

\* build_index returned on a store that had an index, with one text, and the side file
\* holds that text
C11_Witness ==
    /\ Returned("build_index")
    /\ last.had_index
    /\ Len(last.texts) = 1
    /\ documents = last.texts
    /\ index_path # NoPath
    /\ fs[DataPath(index_path)].documents = documents

\* the two artifacts at `path` hold the store as it is in memory
OnDisk(path) ==
    /\ fs[path] = IndexFile(index)
    /\ fs[DataPath(path)] = DataFile(documents, metadata, dimension)

\* C12: when the store has an index_path, after every build_index and every
\* add_documents call that has returned, the index file holds the index and the
\* side file holds the documents, the metadata and the dimension the store has
\* in memory.
C12_SavedOnReturn ==
    ((Returned("build_index") \/ Returned("add_documents")) /\ index_path # NoPath)
        => OnDisk(index_path)

\* C13: after save(path) has returned, the side file is another file than the
\* index file, and both hold what save wrote to them.
C13_TwoFiles ==
    Returned("save") =>
        /\ DataPath(last.path) # last.path
        /\ OnDisk(last.path)

\* the store a new instance becomes when it loads `path`
Reloaded(path) == load(construct(fs, use_openai, NoPath), use_openai, path)

\* the index holds the embeddings of the documents, in their order, as
\* build_index and add_documents leave it
ProducedByBuild ==
    /\ index.present
    /\ index = index_add(IndexFlatIP(GeneratorDimension(use_openai)),
                         normalize_rows(embed_batch(use_openai, documents)))

\* C14: a store that build_index and add_documents calls produced and that was
\* saved is, loaded from the same path by a new instance, the same store: the
\* same vectors, documents and metadata in the same order, and the same
\* results for every search.
C14_RoundTrip ==
    (/\ index_path # NoPath
     /\ Returned("build_index") \/ Returned("add_documents") \/ Returned("save")
     /\ ProducedByBuild)
        => LET R == Reloaded(index_path)
           IN  /\ ~R.raised
               /\ R.index = index
               /\ R.documents = documents
               /\ R.metadata = metadata
               /\ \A query \in Queries, top_k \in TopKs, threshold \in Thresholds :
                     search(R, use_openai, query, top_k, threshold)
                         = search(Self, use_openai, query, top_k, threshold)

\* C16: load(path) on an index file whose side file is missing does not raise
\* and leaves the store with no documents and no metadata, whatever it held.
C16_LoadWithoutSideFile ==
    (/\ last.op = "load"
     /\ fs[last.path].kind = "index"
     /\ ~Exists(fs, DataPath(last.path)))
        => /\ ~last.raised
           /\ documents = <<>>
           /\ metadata = <<>>

\* load returned on an index file without side file, in a store that held
\* documents when load was called
C16_Witness ==
    /\ Returned("load")
    /\ last.had_documents
    /\ fs[last.path].kind = "index"
    /\ ~Exists(fs, DataPath(last.path))
    /\ ntotal(index) = 2
    /\ documents = <<>>

\* neither file of the index at `path`, or one of the two only
AbsentOrPartial(path) == ~(Exists(fs, path) /\ Exists(fs, DataPath(path)))

\* the store is as the constructor leaves it on the files as they are
AsConstructed ==
    LET C == construct(fs, use_openai, index_path)
    IN  /\ ~C.raised
        /\ index = C.index
        /\ documents = C.documents
        /\ metadata = C.metadata
        /\ dimension = C.dimension

\* C17: on a store constructed on a path whose index files are absent or of
\* which one only is present, every search (top_k at least 1, as search's
\* contract has it) returns the empty list and does not raise.
C17_DegradedSearch ==
    (/\ last.op = "search"
     /\ last.top_k >= 1
     /\ index_path # NoPath
     /\ AbsentOrPartial(index_path)
     /\ AsConstructed)
        => /\ ~last.raised
           /\ results = <<>>

\* C18: a load (by the caller or by the constructor) of an index file whose
\* dimension is not the embedding generator's does not raise, loads the index,
\* and prints the dimension warning, with the side file present or missing.
C18_DimensionWarning ==
    (/\ last.op \in {"load", "construct"}
     /\ last.path # NoPath
     /\ fs[last.path].kind = "index"
     /\ fs[last.path].index.d # GeneratorDimension(use_openai)
     /\ fs[DataPath(last.path)].kind \in {"data", "absent"})
        => /\ ~last.raised
           /\ index = fs[last.path].index
           /\ last.warned

\* C15: when startup finds one of the two index files only, the index counts
\* as absent: check_index_exists says it does not exist, the constructor
\* loads no index, and the store is marked ready only with an index that
\* startup built anew.
C15_SingleArtifact ==
    (app.phase = "up" /\ app.found \in {"index_only", "data_only"})
        => /\ ~app.index_exists
           /\ ~app.loaded
           /\ app.ready => app.step \in {"built", "error building"}

\* C19: when the search made for a chat request raises, get_knowledge_context
\* gives the empty context and extract_from_query gives no citation; the
\* exception does not reach chat, which goes on to its reply.
C19_SearchFailureContained ==
    (app.pc \in {"llm", "replied", "error"} /\ app.search_raised)
        => /\ ~app.chat_raised
           /\ app.pc # "error"
           /\ app.pc = "llm" => app.context = <<>>
           /\ app.pc = "replied" => app.citations = <<>>

\* a chat request was answered although both of its searches raised, on a
\* store that holds vectors
C19_Witness ==
    /\ app.pc = "replied"
    /\ app.search_raised
    /\ app.context = <<>>
    /\ app.ready
    /\ ntotal(index) > 0

\* C20: startup completes whatever fails in it; afterwards citation_extractor
\* is set, and vector_store_instance is None or a store whose index holds at
\* least one vector (the extractor has the store exactly then).
C20_StartupCompletes ==
    /\ app.phase # "failed"
    /\ app.phase = "up"
          => /\ ~app.raised
             /\ app.extractor # "unset"
             /\ app.ready => (index.present /\ ntotal(index) > 0)
             /\ (app.extractor = "with_store") <=> app.ready

\* startup completed without a store after an exception left
\* _load_or_build_index
C20_Witness ==
    /\ app.phase = "up"
    /\ ~app.ready
    /\ app.extractor = "without_store"
    /\ app.log = "falling back"

\* the neighbours of the latest search that pass the threshold and whose
\* position has a document, in ranking order
KeptNeighbours ==
    SelectSeq(Near, LAMBDA n : n.idx >= 0 /\ n.similarity >= last.threshold
                               /\ n.idx < Len(documents))

\* C21: a search returns one tuple for every neighbour that passes the
\* threshold and has a document; the tuple carries the metadata entry stored
\* at the neighbour's position, or the empty mapping when the position lies
\* beyond the metadata list, and the search does not raise for that.
C21_MetadataAtPosition ==
    (last.op = "search" /\ index.present /\ ntotal(index) > 0 /\ last.top_k >= 1)
        => /\ ~last.raised
           /\ Len(results) = Len(KeptNeighbours)
           /\ \A i \in 1..Len(results) :
                 LET idx == KeptNeighbours[i].idx
                 IN  /\ results[i].text = documents[idx + 1]
                     /\ results[i].metadata = IF idx < Len(metadata) THEN metadata[idx + 1]
                                              ELSE EmptyDict

\* a search returned two tuples from a store with two documents and one
\* metadata entry, which is not empty
C21_Witness ==
    /\ Returned("search")
    /\ Len(documents) = 2
    /\ Len(metadata) = 1
    /\ metadata[1] # EmptyDict
    /\ Len(results) = 2
    /\ \E i \in 1..2 : results[i].metadata = EmptyDict
    /\ \E i \in 1..2 : results[i].metadata # EmptyDict

\* one sequence is the beginning of another
IsPrefix(s, t) == Len(s) <= Len(t) /\ \A i \in 1..Len(s) : s[i] = t[i]

C23_FilesOfOneSave ==
    (/\ Returned("construct")
     /\ index.present
     /\ Exists(fs, DataPath(index_path)))
        => /\ ProducedByBuild
           /\ OnDisk(index_path)

\* C24: every tuple a search returns pairs the text at the matched position
\* with the metadata the caller supplied for that text in the build_index or
\* add_documents call that added it, or with the empty mapping when it
\* supplied none for it.
C24_MetadataOfItsText ==
    (Returned("search") /\ index.present /\ ntotal(index) > 0 /\ last.top_k >= 1)
        => /\ Len(results) = Len(KeptNeighbours)
           /\ \A i \in 1..Len(results) :
                 LET idx == KeptNeighbours[i].idx
                 IN  /\ results[i].text = documents[idx + 1]
                     /\ results[i].metadata = caller.supplied[idx + 1]

\* what the caller's lists hold now: a list that the store holds as its own
\* has the contents of the store's list
CallerDocs == IF caller.documents_is_docs THEN documents ELSE caller.docs_passed
CallerMeta == IF caller.metadata_is_meta THEN metadata ELSE caller.meta_passed.list

\* C25: after build_index(docs, meta) and any add_documents calls that
\* returned, the caller's docs and meta lists hold what they held when they
\* were passed to build_index.
C25_CallerListsUntouched ==
    (Returned("build_index") \/ Returned("add_documents"))
        => /\ CallerDocs = caller.docs_passed
           /\ CallerMeta = caller.meta_passed.list

\* C26: for every text and every 0 <= overlap < chunk_size, each iteration of
\* chunk_text's loop leaves the start offset larger than it found it.
C26_StartIncreases ==
    [][(chunker.pc = "loop" /\ chunker'.pc = "loop") => chunker'.start > chunker.start]_vars

\* C27: when a /chat request has ended with an HTTP 400 or 500 and no other
\* request has arrived, the sessions dictionary is what it was when the
\* request arrived: no session more, no message more.
C27_ErrorLeavesSessions ==
    \A r \in RequestIds :
        (/\ requests[r].pc = "done"
         /\ requests[r].status \in {400, 500}
         /\ \A o \in RequestIds \ {r} : requests[o].pc = "new")
            => sessions = requests[r].before

\* a history alternates user and assistant messages, and each assistant
\* message is the answer to the user message before it
Alternates(history) ==
    \A i \in 1..Len(history) :
        IF i % 2 = 1 THEN history[i].role = "user"
        ELSE /\ history[i].role = "assistant"
             /\ history[i].content = Answer(history[i - 1].content)

\* C28: whatever the interleaving of the /chat requests, once the requests
\* that arrived have all been answered every session history alternates user
\* and assistant messages, each assistant message right after the user
\* message it answers.
C28_HistoryAlternates ==
    (\A r \in RequestIds : requests[r].pc \in {"new", "done"} /\ requests[r].status # 500)
        => \A s \in DOMAIN sessions : Alternates(sessions[s])

\* C29: a chat request calls the LLM at most twice: first with the history,
\* the query and the retrieved context; a second time only when the first
\* call failed, with the same history and query and no context.  The reply is
\* that of the first call that succeeded, and the request ends with an HTTP
\* 500 only when both calls failed.
C29_AtMostTwoCalls ==
    \A r \in RequestIds :
        LET req == requests[r]
            first == build_messages(req.conversation_history, req.message.text, req.context)
            second == build_messages(req.conversation_history, req.message.text, "")
        IN  /\ Len(req.calls) <= 2
            /\ Len(req.outcomes) <= Len(req.calls)
            /\ req.calls # <<>> => req.calls[1] = first
            /\ Len(req.calls) = 2
                => (/\ ~req.outcomes[1].ok
                    /\ req.calls[2] = second)
            /\ (req.outcomes # <<>> /\ req.outcomes[1].ok)
                => (/\ Len(req.calls) = 1
                    /\ req.status = 200
                    /\ req.reply = req.outcomes[1].reply)
            /\ (Len(req.outcomes) = 2 /\ req.outcomes[2].ok)
                => (req.status = 200 /\ req.reply = req.outcomes[2].reply)
            /\ req.status = 500
                => (Len(req.outcomes) = 2 /\ ~req.outcomes[1].ok /\ ~req.outcomes[2].ok)
            /\ (Len(req.outcomes) = 2 /\ ~req.outcomes[2].ok) => req.status = 500
            /\ req.pc \in {"call", "fallback"} => Len(req.outcomes) = Len(req.calls) - 1

\* a request with retrieved context whose first LLM call failed and whose
\* fallback call, without the context, was answered
C29_Witness ==
    \E r \in RequestIds :
        /\ requests[r].pc = "done"
        /\ requests[r].status = 200
        /\ requests[r].context # ""
        /\ requests[r].conversation_history # <<>>
        /\ Len(requests[r].calls) = 2
        /\ requests[r].calls[2].user_message.context = ""
        /\ requests[r].reply = Answer(requests[r].message.text)

\* C30: startup invokes build_index only when the store the constructor
\* made loaded no vectors and the index file and the side file are not both
\* on disk; when both are on disk, startup invokes no build_index and leaves
\* every file as it is, whatever the documentation directory holds.
C30_BuildOnlyWhenMissing ==
    [][(app.phase = "down" /\ app'.phase # "down")
        => /\ app'.invoked
                => (/\ ~check_index_exists(fs, index_path)
                    /\ LET C == construct(fs, FALSE, index_path)
                       IN  ~C.raised /\ ~(C.index.present /\ ntotal(C.index) > 0))
           /\ check_index_exists(fs, index_path) => (~app'.invoked /\ fs' = fs)]_vars

\* startup found no complete pair, loaded no vectors and built the index
C30_Witness ==
    /\ app.phase = "up"
    /\ app.invoked
    /\ app.step = "built"
    /\ ~app.index_exists
    /\ ntotal(index) > 0

====
